---- MODULE Spec2Model ----
(***************************************************************************)
(* Model of the OpenAI-compatible router in src/main.py: the model lister  *)
(* (GET /v1/models) with its on-disk cache, the message translator, and    *)
(* the chat relay (POST /v1/chat/completions) on the Gemini (primary) and  *)
(* OpenRouter (secondary) paths.                                           *)
(***************************************************************************)
EXTENDS Integers, Sequences, FiniteSets, TLC

VARIABLES
    genai_client,   \* TRUE iff GEMINI_API_KEY was set at start-up (main.py:24)
    cache,          \* the file CACHE_FILE on disk
    active,         \* the request slots this run uses
    req,            \* per request slot: the handler's position and what it produced
    messages,       \* input of a stand-alone run of the message translator
    gemini_contents \* its result

vars == <<genai_client, cache, active, req, messages, gemini_contents>>

----------------------------------------------------------------------------
(* Bounds *)

MaxModels == 2      \* models in one provider listing
MaxEvents == 2      \* upstream events / lines of one chat stream
MaxMsgs   == 3      \* messages handed to the translator in a stand-alone run

Reqs == {1, 2}

----------------------------------------------------------------------------
(* JSON values, as far as the handlers look into them *)

\* {"object": "list", "data": [...]}
Catalog(data) == [shape |-> "catalog", data |-> data, error |-> <<>>]
\* {"error": msg}
ErrorJson(msg) == [shape |-> "error", data |-> <<>>, error |-> msg]
\* {} : an object without a "data" member
EmptyObject == [shape |-> "object", data |-> <<>>, error |-> <<>>]
\* {"data": 5} : an object whose "data" has no length
ScalarData == [shape |-> "dataScalar", data |-> <<>>, error |-> <<>>]
\* [] : not an object
JsonArray == [shape |-> "array", data |-> <<>>, error |-> <<>>]
NoJson == [shape |-> "none", data |-> <<>>, error |-> <<>>]

\* str(e) of the exceptions the collaborators raise
ExcMsgs == {"boom"}

\* str(e) of the exceptions the interpreter raises on a value of the wrong type
TypeErrorMsg == "TypeError"
AttributeErrorMsg == "AttributeError"

----------------------------------------------------------------------------
(* The cache file *)

CacheMissing == [kind |-> "missing", value |-> NoJson]
\* the file exists and open() raises
CacheUnreadable == [kind |-> "unreadable", value |-> NoJson]
\* the file exists and json.load raises
CacheCorrupt == [kind |-> "corrupt", value |-> NoJson]
CacheJson(v) == [kind |-> "json", value |-> v]

\* os.path.exists(CACHE_FILE)
CacheExists(c) == c.kind # "missing"

\* len(cached_data['data']) evaluates without raising
HasSizedData(v) == v.shape = "catalog"

\* lines 35-42: the cached value is returned iff the whole try block succeeds
CacheHit(c) == CacheExists(c) /\ c.kind = "json" /\ HasSizedData(c.value)

----------------------------------------------------------------------------
(* Models of the primary provider and their descriptors *)

\* m.name is a string; it is kept as its sequence of segments
ProviderModel(name, hasLimit, limit) ==
    [name |-> name, hasLimit |-> hasLimit, input_token_limit |-> limit]

ProviderModels ==
    { ProviderModel(<<"models/", "flash">>, TRUE, 8192),
      ProviderModel(<<"models/", "pro">>, FALSE, 0),
      ProviderModel(<<"embed">>, FALSE, 0) }

\* m.name.replace("models/", "")
RECURSIVE StripModelsPrefix(_)
StripModelsPrefix(name) ==
    IF name = <<>> THEN <<>>
    ELSE IF Head(name) = "models/" THEN StripModelsPrefix(Tail(name))
    ELSE <<Head(name)>> \o StripModelsPrefix(Tail(name))

DefaultContextLength == 4096

\* variant: getattr without the default of 4096
ContextLengthOf_NoDefault(m) ==
    IF m.hasLimit THEN m.input_token_limit ELSE 0

\* getattr(m, "input_token_limit", 4096)
ContextLengthOf(m) ==
    IF m.hasLimit THEN m.input_token_limit ELSE DefaultContextLength

\* lines 52-74
Descriptor(m) ==
    [id |-> StripModelsPrefix(m.name),
     canonical_slug |-> StripModelsPrefix(m.name),
     context_length |-> ContextLengthOf(m)]

\* lines 49-74: the loop appends one descriptor per model
RECURSIVE MapModels(_)
MapModels(models) ==
    IF models = <<>> THEN <<>>
    ELSE <<Descriptor(Head(models))>> \o MapModels(Tail(models))

RECURSIVE SeqsUpTo(_, _)
SeqsUpTo(S, n) ==
    IF n = 0 THEN {<<>>}
    ELSE LET shorter == SeqsUpTo(S, n - 1)
         IN  shorter \cup { Append(s, x) : s \in shorter, x \in S }

ModelListings == SeqsUpTo(ProviderModels, MaxModels)

----------------------------------------------------------------------------
(* Request slots *)

\* placeholders of a slot that carries no upstream answer and no chat payload
NoUpstreamBody == [parses |-> FALSE, value |-> NoJson]
NoValue == [present |-> FALSE, type |-> "none", items |-> <<>>]
NoBody ==
    [parse |-> "none", model |-> "absent", stream |-> "absent",
     messages |-> NoValue, contents |-> NoValue]

IdleReq ==
    [kind |-> "idle", pc |-> "idle", path |-> "none",
     resp |-> "none", status |-> 0, content |-> NoJson,
     out |-> <<>>, up |-> <<>>,
     primaryCalls |-> 0, secondaryCalls |-> 0,
     cacheSeen |-> CacheMissing, listed |-> <<>>, writeOutcome |-> "none",
     upstreamStatus |-> 0, upstreamBody |-> NoUpstreamBody,
     raisedAt |-> "none", outAtRaise |-> 0, exc |-> <<>>,
     body |-> NoBody, usedField |-> "none", sentModel |-> "", sent |-> NoValue, sentBody |-> NoBody]

\* JSONResponse(content=..., status_code=...)
JSONResponse(r, content, status) ==
    [r EXCEPT !.pc = "done", !.resp = "json", !.status = status, !.content = content]

\* the slot is free and belongs to this run
CanStart(r) == r \in active /\ req[r].kind = "idle"

----------------------------------------------------------------------------
(* GET /v1/models : list_models, lines 29-105 *)

\* lines 76-84: open(CACHE_FILE, "w") and json.dump; the except swallows a failure
WriteOutcomes == {"ok", "open_failed", "dump_failed"}

\* variant: json.dump(mapped_models, f), the bare list instead of the catalog
WriteCache_ListOnly(c, response_data, outcome) ==
    CASE outcome = "ok" -> CacheJson(JsonArray)
      [] outcome = "open_failed" -> c
      [] outcome = "dump_failed" -> CacheCorrupt

WriteCache(c, response_data, outcome) ==
    CASE outcome = "ok" -> CacheJson(response_data)
      [] outcome = "open_failed" -> c
      [] outcome = "dump_failed" -> CacheCorrupt

\* lines 35-40: the cache is there and loads
ListModelsCached(r) ==
    /\ CanStart(r)
    /\ CacheHit(cache)
    /\ req' = [req EXCEPT ![r] =
           JSONResponse([IdleReq EXCEPT !.kind = "models", !.path = "cache",
                                        !.cacheSeen = cache],
                        cache.value, 200)]
    /\ UNCHANGED <<genai_client, cache, active, messages, gemini_contents>>

\* variant: the cache write sits in the outer try only, so its failure answers 500
ListModelsGemini_WriteFailureFatal(r) ==
    /\ CanStart(r)
    /\ ~CacheHit(cache)
    /\ genai_client
    /\ \E models \in ModelListings, outcome \in WriteOutcomes :
         LET response_data == Catalog(MapModels(models))
             started == [IdleReq EXCEPT !.kind = "models", !.path = "primary",
                                        !.cacheSeen = cache, !.listed = models,
                                        !.writeOutcome = outcome,
                                        !.primaryCalls = 1]
         IN  /\ cache' = WriteCache(cache, response_data, outcome)
             /\ req' = [req EXCEPT ![r] =
                    IF outcome = "ok"
                    THEN JSONResponse(started, response_data, 200)
                    ELSE JSONResponse(started, ErrorJson(<<"OSError">>), 500)]
    /\ UNCHANGED <<genai_client, active, messages, gemini_contents>>

\* lines 45-87: no usable cache, Gemini configured, models.list() succeeds
ListModelsGemini(r) ==
    /\ CanStart(r)
    /\ ~CacheHit(cache)
    /\ genai_client
    /\ \E models \in ModelListings, outcome \in WriteOutcomes :
         LET response_data == Catalog(MapModels(models))
         IN  /\ cache' = WriteCache(cache, response_data, outcome)
             /\ req' = [req EXCEPT ![r] =
                    JSONResponse([IdleReq EXCEPT !.kind = "models", !.path = "primary",
                                                 !.cacheSeen = cache, !.listed = models,
                                                 !.writeOutcome = outcome,
                                                 !.primaryCalls = 1],
                                 response_data, 200)]
    /\ UNCHANGED <<genai_client, active, messages, gemini_contents>>

\* variant: a failed primary listing falls through to the OpenRouter branch
ListModelsGeminiFails_FallsThrough(r) ==
    /\ CanStart(r)
    /\ ~CacheHit(cache)
    /\ genai_client
    /\ \E e \in ExcMsgs :
         req' = [req EXCEPT ![r] =
             [IdleReq EXCEPT !.kind = "models", !.path = "secondary",
                             !.pc = "await_models", !.cacheSeen = cache,
                             !.primaryCalls = 1, !.secondaryCalls = 1]]
    /\ UNCHANGED <<genai_client, cache, active, messages, gemini_contents>>

\* variant: the cache file is opened for writing before the provider is called
ListModelsGeminiFails_TruncatesCache(r) ==
    /\ CanStart(r)
    /\ ~CacheHit(cache)
    /\ genai_client
    /\ cache' = CacheCorrupt
    /\ \E e \in ExcMsgs :
         req' = [req EXCEPT ![r] =
             JSONResponse([IdleReq EXCEPT !.kind = "models", !.path = "primary",
                                          !.cacheSeen = cache, !.primaryCalls = 1,
                                          !.raisedAt = "call", !.exc = <<e>>],
                          ErrorJson(<<e>>), 500)]
    /\ UNCHANGED <<genai_client, active, messages, gemini_contents>>

\* lines 45-48, 89-91: models.list() (or the iteration over it) raises
ListModelsGeminiFails(r) ==
    /\ CanStart(r)
    /\ ~CacheHit(cache)
    /\ genai_client
    /\ \E e \in ExcMsgs :
         req' = [req EXCEPT ![r] =
             JSONResponse([IdleReq EXCEPT !.kind = "models", !.path = "primary",
                                          !.cacheSeen = cache, !.primaryCalls = 1,
                                          !.raisedAt = "call", !.exc = <<e>>],
                          ErrorJson(<<e>>), 500)]
    /\ UNCHANGED <<genai_client, cache, active, messages, gemini_contents>>

\* lines 93-98: no usable cache, no Gemini client: the GET to OpenRouter is awaited
ListModelsOpenRouter(r) ==
    /\ CanStart(r)
    /\ ~CacheHit(cache)
    /\ ~genai_client
    /\ req' = [req EXCEPT ![r] =
           [IdleReq EXCEPT !.kind = "models", !.path = "secondary",
                           !.pc = "await_models", !.cacheSeen = cache,
                           !.secondaryCalls = 1]]
    /\ UNCHANGED <<genai_client, cache, active, messages, gemini_contents>>

UpstreamStatuses == {200, 401, 502}

\* what OpenRouter's /models may answer with: a body that is not JSON, or a JSON value
NotJsonBody == NoUpstreamBody
JsonBody(v) == [parses |-> TRUE, value |-> v]

OpenRouterData == { MapModels(l) : l \in SeqsUpTo(ProviderModels, 1) }

OpenRouterBodies ==
    {NotJsonBody}
      \cup { JsonBody(Catalog(d)) : d \in OpenRouterData }
      \cup { JsonBody(ErrorJson(<<e>>)) : e \in ExcMsgs }
      \cup { JsonBody(ScalarData), JsonBody(JsonArray) }

\* lines 99-101 raise: r.json() on a non-JSON body, data.get on a non-object,
\* len(filtered) on a value without a length
OpenRouterParseFails(b) ==
    \/ ~b.parses
    \/ b.value.shape = "array"
    \/ b.value.shape = "dataScalar"

\* data.get("data", [])
Filtered(v) == IF v.shape = "catalog" THEN v.data ELSE <<>>

\* variant: the upstream status is not passed on
OpenRouterModelsResponse_Always200(r, status, b) ==
    IF OpenRouterParseFails(b)
    THEN JSONResponse([r EXCEPT !.upstreamStatus = status, !.upstreamBody = b,
                                !.raisedAt = "parse", !.exc = <<TypeErrorMsg>>],
                      ErrorJson(<<TypeErrorMsg>>), 500)
    ELSE JSONResponse([r EXCEPT !.upstreamStatus = status, !.upstreamBody = b],
                      Catalog(Filtered(b.value)), 200)

\* line 102 / line 105
OpenRouterModelsResponse(r, status, b) ==
    IF OpenRouterParseFails(b)
    THEN JSONResponse([r EXCEPT !.upstreamStatus = status, !.upstreamBody = b,
                                !.raisedAt = "parse", !.exc = <<TypeErrorMsg>>],
                      ErrorJson(<<TypeErrorMsg>>), 500)
    ELSE JSONResponse([r EXCEPT !.upstreamStatus = status, !.upstreamBody = b],
                      Catalog(Filtered(b.value)), status)

\* variant: the catalog obtained from OpenRouter is written to the cache file too
OpenRouterModelsReply_Caches(r) ==
    /\ req[r].kind = "models"
    /\ req[r].pc = "await_models"
    /\ \E status \in UpstreamStatuses, b \in OpenRouterBodies :
         /\ req' = [req EXCEPT ![r] = OpenRouterModelsResponse(req[r], status, b)]
         /\ cache' = IF OpenRouterParseFails(b) THEN cache
                     ELSE CacheJson(Catalog(Filtered(b.value)))
    /\ UNCHANGED <<genai_client, active, messages, gemini_contents>>

\* lines 98-102: the awaited GET returns a response
OpenRouterModelsReply(r) ==
    /\ req[r].kind = "models"
    /\ req[r].pc = "await_models"
    /\ \E status \in UpstreamStatuses, b \in OpenRouterBodies :
         req' = [req EXCEPT ![r] = OpenRouterModelsResponse(req[r], status, b)]
    /\ UNCHANGED <<genai_client, cache, active, messages, gemini_contents>>

\* lines 98, 103-105: the awaited GET raises (connection failure)
OpenRouterModelsFails(r) ==
    /\ req[r].kind = "models"
    /\ req[r].pc = "await_models"
    /\ \E e \in ExcMsgs :
         req' = [req EXCEPT ![r] =
             JSONResponse([req[r] EXCEPT !.raisedAt = "call", !.exc = <<e>>],
                          ErrorJson(<<e>>), 500)]
    /\ UNCHANGED <<genai_client, cache, active, messages, gemini_contents>>

----------------------------------------------------------------------------
(* Chat payloads *)

\* one element of a "messages" / "contents" list: a dict, or anything else
Msg(role, content) ==
    [isDict |-> TRUE, hasRole |-> TRUE, role |-> role,
     hasContent |-> TRUE, content |-> content, parts |-> <<>>]
\* {"role": ...} : a dict without "content"
MsgNoContent(role) ==
    [isDict |-> TRUE, hasRole |-> TRUE, role |-> role,
     hasContent |-> FALSE, content |-> "", parts |-> <<>>]
\* {"content": ...} : a dict without "role"
MsgNoRole(content) ==
    [isDict |-> TRUE, hasRole |-> FALSE, role |-> "",
     hasContent |-> TRUE, content |-> content, parts |-> <<>>]
\* {"role": ..., "parts": [{"text": ...}]} : the provider's own shape
Native(role, text) ==
    [isDict |-> TRUE, hasRole |-> TRUE, role |-> role,
     hasContent |-> FALSE, content |-> "", parts |-> <<[text |-> text]>>]
\* a list element that is not a dict (a bare string)
NotADict ==
    [isDict |-> FALSE, hasRole |-> FALSE, role |-> "",
     hasContent |-> FALSE, content |-> "", parts |-> <<>>]

\* the value of a body field
Absent == NoValue
List(items) == [present |-> TRUE, type |-> "list", items |-> items]
\* a non-empty string
Str == [present |-> TRUE, type |-> "str", items |-> <<>>]

\* Python truthiness of body.get(field)
Truthy(v) == v.present /\ (v.type = "str" \/ (v.type = "list" /\ v.items # <<>>))

\* a or b
PyOr(a, b) == IF Truthy(a) THEN a ELSE b

\* msg.get("role") : None when the key is missing
RoleOf(msg) == IF msg.hasRole THEN msg.role ELSE "None"

\* msg.get("content", "")
TextOf(msg) == IF msg.hasContent THEN msg.content ELSE ""

\* line 117
GeminiRole(role) ==
    IF role = "user" THEN "user"
    ELSE IF role = "assistant" THEN "model" ELSE "system"

\* lines 116-119
GeminiContent(msg) ==
    [role |-> GeminiRole(RoleOf(msg)), parts |-> <<[text |-> TextOf(msg)]>>]

\* variant: only a missing "content" is skipped, an empty one is kept
Skipped_OnlyMissing(msg) == ~msg.hasContent

\* line 114: not text
Skipped(msg) == TextOf(msg) = ""

\* lines 108-120; msg.get raises AttributeError on an element that is not a dict
RECURSIVE ConvertLoop(_, _)
ConvertLoop(msgs, acc) ==
    IF msgs = <<>> THEN [ok |-> TRUE, value |-> acc]
    ELSE IF ~Head(msgs).isDict THEN [ok |-> FALSE, value |-> acc]
    ELSE IF Skipped(Head(msgs)) THEN ConvertLoop(Tail(msgs), acc)
    ELSE ConvertLoop(Tail(msgs), Append(acc, GeminiContent(Head(msgs))))

convert_openai_messages_to_gemini_contents(msgs) == ConvertLoop(msgs, <<>>)

\* the parsed request body
InvalidBody ==
    [parse |-> "invalid", model |-> "absent", stream |-> "absent",
     messages |-> Absent, contents |-> Absent]
\* valid JSON that is not an object, e.g. []
ArrayBody ==
    [parse |-> "array", model |-> "absent", stream |-> "absent",
     messages |-> Absent, contents |-> Absent]
ObjectBody(model, stream, msgs, contents) ==
    [parse |-> "object", model |-> model, stream |-> stream,
     messages |-> msgs, contents |-> contents]

MessagesValues ==
    { Absent, List(<<>>), Str,
      List(<<Msg("user", "hi")>>),
      List(<<Msg("user", "hi"), Msg("assistant", "")>>),
      List(<<Msg("user", "hi"), NotADict>>),
      List(<<NotADict>>) }

ContentsValues ==
    { Absent, List(<<>>), List(<<Native("user", "hi")>>) }

ChatBodies ==
    {InvalidBody, ArrayBody}
      \cup { ObjectBody("absent", "absent", m, c) : m \in MessagesValues, c \in ContentsValues }
      \cup { ObjectBody("gpt", "false", List(<<Msg("user", "hi")>>), Absent) }

DefaultModel == "gemini-2.5-flash"

\* body.get("model", "gemini-2.5-flash")
ModelOf(body) == IF body.model = "absent" THEN DefaultModel ELSE body.model

\* line 137
ContentsOf(body) == PyOr(body.messages, body.contents)

\* line 137: the field whose value `or` returned
UsedField(body) == IF Truthy(body.messages) THEN "messages" ELSE "contents"

\* line 142
NeedsConversion(contents) ==
    contents.type = "list" /\ contents.items # <<>> /\ Head(contents.items).isDict

----------------------------------------------------------------------------
(* Server-sent events *)

\* a line of text: its prefix, and its payload either literal or JSON-encoded
Line(prefix, kind, text) == [prefix |-> prefix, kind |-> kind, text |-> text]
EmptyLine == Line("", "literal", <<>>)
DoneLine == Line("data: ", "literal", <<"[DONE]">>)

\* line + "\n\n"
Wire(line) == [line |-> line, term |-> "\n\n"]

\* "data: [DONE]\n\n"
Sentinel == Wire(DoneLine)

\* f"data: {json.dumps(chunk)}\n\n", lines 154-165
ChunkEvent(text) == Wire(Line("data: ", "json_chunk", <<text>>))

\* f"data: {json.dumps({'error': ...})}\n\n"
ErrorEvent(msg) == Wire(Line("data: ", "json_error", msg))

\* line 172: str(e)
GeminiErrorMsg(e) == <<e>>
\* line 203: f"Streaming failed: {str(e)}"
OpenRouterErrorMsg(e) == <<"Streaming failed: ", e>>

PyNone == "None"

\* events of generate_content_stream: with a text, with text None, without the attribute
GeminiEvents ==
    { [hasText |-> TRUE, text |-> "a"],
      [hasText |-> TRUE, text |-> PyNone],
      [hasText |-> FALSE, text |-> PyNone] }

\* lines of the OpenRouter response
OpenRouterLines ==
    { EmptyLine, DoneLine,
      Line("data: ", "json_chunk", <<"a">>),
      Line(": ", "literal", <<"OPENROUTER PROCESSING">>) }

\* StreamingResponse(generator, media_type="text/event-stream")
StreamingResponse(r) ==
    [r EXCEPT !.pc = "gen_start", !.resp = "stream", !.status = 200]

\* the exception is caught by the generator's except clause
Caught(r, where, e) ==
    [r EXCEPT !.pc = "except", !.raisedAt = where, !.exc = <<e>>,
              !.outAtRaise = Len(r.out)]

\* yield
Yield(r, event, pc) == [r EXCEPT !.out = Append(r.out, event), !.pc = pc]

----------------------------------------------------------------------------
(* POST /v1/chat/completions : chat_completions, lines 122-207 *)

NewChat(body) == [IdleReq EXCEPT !.kind = "chat", !.body = body]

\* variant: the parse failure is reported as a server error
ChatInvalidJson_As500(r) ==
    /\ CanStart(r)
    /\ \E body \in ChatBodies :
         /\ body.parse = "invalid"
         /\ req' = [req EXCEPT ![r] =
                JSONResponse(NewChat(body), ErrorJson(<<"Invalid JSON body">>), 500)]
    /\ UNCHANGED <<genai_client, cache, active, messages, gemini_contents>>

\* lines 127-132: request.json() raises
ChatInvalidJson(r) ==
    /\ CanStart(r)
    /\ \E body \in ChatBodies :
         /\ body.parse = "invalid"
         /\ req' = [req EXCEPT ![r] =
                JSONResponse(NewChat(body), ErrorJson(<<"Invalid JSON body">>), 400)]
    /\ UNCHANGED <<genai_client, cache, active, messages, gemini_contents>>

\* lines 134-136, 177-179: body.get on a body that is not a dict
ChatGeminiBadBody(r) ==
    /\ CanStart(r)
    /\ genai_client
    /\ \E body \in ChatBodies :
         /\ body.parse = "array"
         /\ req' = [req EXCEPT ![r] =
                JSONResponse([NewChat(body) EXCEPT !.path = "primary",
                                  !.raisedAt = "handler", !.exc = <<AttributeErrorMsg>>],
                             ErrorJson(<<AttributeErrorMsg>>), 500)]
    /\ UNCHANGED <<genai_client, cache, active, messages, gemini_contents>>

\* lines 137-140
ChatGeminiMissing(r) ==
    /\ CanStart(r)
    /\ genai_client
    /\ \E body \in ChatBodies :
         /\ body.parse = "object"
         /\ ~Truthy(ContentsOf(body))
         /\ req' = [req EXCEPT ![r] =
                JSONResponse([NewChat(body) EXCEPT !.path = "primary",
                                  !.usedField = UsedField(body)],
                             ErrorJson(<<"Missing 'messages' or 'contents'">>), 400)]
    /\ UNCHANGED <<genai_client, cache, active, messages, gemini_contents>>

\* lines 142-143, 177-179: the translator raises
ChatGeminiConvertFails(r) ==
    /\ CanStart(r)
    /\ genai_client
    /\ \E body \in ChatBodies :
         /\ body.parse = "object"
         /\ Truthy(ContentsOf(body))
         /\ NeedsConversion(ContentsOf(body))
         /\ ~convert_openai_messages_to_gemini_contents(ContentsOf(body).items).ok
         /\ req' = [req EXCEPT ![r] =
                JSONResponse([NewChat(body) EXCEPT !.path = "primary",
                                  !.usedField = UsedField(body),
                                  !.raisedAt = "handler", !.exc = <<AttributeErrorMsg>>],
                             ErrorJson(<<AttributeErrorMsg>>), 500)]
    /\ UNCHANGED <<genai_client, cache, active, messages, gemini_contents>>

\* lines 142-143: what the generator will hand to generate_content_stream
ResolvedContents(body) ==
    IF NeedsConversion(ContentsOf(body))
    THEN List(convert_openai_messages_to_gemini_contents(ContentsOf(body).items).value)
    ELSE ContentsOf(body)

\* lines 136-175: the handler returns the streaming response
ChatGeminiStream(r) ==
    /\ CanStart(r)
    /\ genai_client
    /\ \E body \in ChatBodies :
         /\ body.parse = "object"
         /\ Truthy(ContentsOf(body))
         /\ NeedsConversion(ContentsOf(body)) =>
                convert_openai_messages_to_gemini_contents(ContentsOf(body).items).ok
         /\ req' = [req EXCEPT ![r] =
                StreamingResponse([NewChat(body) EXCEPT !.path = "primary",
                                       !.usedField = UsedField(body),
                                       !.sentModel = ModelOf(body),
                                       !.sent = ResolvedContents(body)])]
    /\ UNCHANGED <<genai_client, cache, active, messages, gemini_contents>>

InGenerator(r, path, pc) ==
    req[r].kind = "chat" /\ req[r].path = path /\ req[r].pc = pc

\* lines 148-151: generate_content_stream returns the event iterator
GeminiCall(r) ==
    /\ InGenerator(r, "primary", "gen_start")
    /\ req' = [req EXCEPT ![r] = [req[r] EXCEPT !.pc = "iterating", !.primaryCalls = 1]]
    /\ UNCHANGED <<genai_client, cache, active, messages, gemini_contents>>

\* lines 148-151, 170: generate_content_stream raises
GeminiCallFails(r) ==
    /\ InGenerator(r, "primary", "gen_start")
    /\ \E e \in ExcMsgs :
         req' = [req EXCEPT ![r] =
             Caught([req[r] EXCEPT !.primaryCalls = 1], "setup", e)]
    /\ UNCHANGED <<genai_client, cache, active, messages, gemini_contents>>

\* lines 152-165: one event of the stream
GeminiOnEvent(r, event) ==
    IF event.hasText
    THEN Yield([r EXCEPT !.up = Append(r.up, event)], ChunkEvent(event.text), "iterating")
    ELSE [r EXCEPT !.up = Append(r.up, event)]

GeminiEvent(r) ==
    /\ InGenerator(r, "primary", "iterating")
    /\ Len(req[r].up) < MaxEvents
    /\ \E event \in GeminiEvents :
         req' = [req EXCEPT ![r] = GeminiOnEvent(req[r], event)]
    /\ UNCHANGED <<genai_client, cache, active, messages, gemini_contents>>

\* line 167: the stream is exhausted
GeminiEnd(r) ==
    /\ InGenerator(r, "primary", "iterating")
    /\ req' = [req EXCEPT ![r] = Yield(req[r], Sentinel, "done")]
    /\ UNCHANGED <<genai_client, cache, active, messages, gemini_contents>>

\* variant: a failure of the iterator replaces the stream by a JSON error
GeminiRaises_Returns500(r) ==
    /\ InGenerator(r, "primary", "iterating")
    /\ \E e \in ExcMsgs :
         req' = [req EXCEPT ![r] =
             JSONResponse([req[r] EXCEPT !.raisedAt = "iter", !.exc = <<e>>,
                                         !.outAtRaise = Len(req[r].out)],
                          ErrorJson(<<e>>), 500)]
    /\ UNCHANGED <<genai_client, cache, active, messages, gemini_contents>>

\* lines 152, 170: the iterator raises
GeminiRaises(r) ==
    /\ InGenerator(r, "primary", "iterating")
    /\ \E e \in ExcMsgs :
         req' = [req EXCEPT ![r] = Caught(req[r], "iter", e)]
    /\ UNCHANGED <<genai_client, cache, active, messages, gemini_contents>>

\* line 172
GeminiYieldError(r) ==
    /\ InGenerator(r, "primary", "except")
    /\ req' = [req EXCEPT ![r] =
           Yield(req[r], ErrorEvent(GeminiErrorMsg(req[r].exc[1])), "except_done")]
    /\ UNCHANGED <<genai_client, cache, active, messages, gemini_contents>>

\* line 173
GeminiYieldDone(r) ==
    /\ InGenerator(r, "primary", "except_done")
    /\ req' = [req EXCEPT ![r] = Yield(req[r], Sentinel, "done")]
    /\ UNCHANGED <<genai_client, cache, active, messages, gemini_contents>>

\* line 188 on a body that is not a dict: the TypeError is caught nowhere
ChatOpenRouterBadBody(r) ==
    /\ CanStart(r)
    /\ ~genai_client
    /\ \E body \in ChatBodies :
         /\ body.parse = "array"
         /\ req' = [req EXCEPT ![r] =
                [NewChat(body) EXCEPT !.path = "secondary", !.pc = "done",
                     !.resp = "unhandled", !.status = 500,
                     !.raisedAt = "handler", !.exc = <<TypeErrorMsg>>]]
    /\ UNCHANGED <<genai_client, cache, active, messages, gemini_contents>>

\* line 188: body["stream"] = True
WithStream(body) == [body EXCEPT !.stream = "true"]

\* lines 181-207: the handler returns the streaming response
ChatOpenRouterStream(r) ==
    /\ CanStart(r)
    /\ ~genai_client
    /\ \E body \in ChatBodies :
         /\ body.parse = "object"
         /\ req' = [req EXCEPT ![r] =
                StreamingResponse([NewChat(body) EXCEPT !.path = "secondary",
                                       !.sentBody = WithStream(body)])]
    /\ UNCHANGED <<genai_client, cache, active, messages, gemini_contents>>

\* line 193: the POST is answered (with whatever status)
OpenRouterConnect(r) ==
    /\ InGenerator(r, "secondary", "gen_start")
    /\ \E status \in UpstreamStatuses :
         req' = [req EXCEPT ![r] = [req[r] EXCEPT !.pc = "iterating",
                                        !.secondaryCalls = 1,
                                        !.upstreamStatus = status]]
    /\ UNCHANGED <<genai_client, cache, active, messages, gemini_contents>>

\* lines 193, 201: the POST raises
OpenRouterConnectFails(r) ==
    /\ InGenerator(r, "secondary", "gen_start")
    /\ \E e \in ExcMsgs :
         req' = [req EXCEPT ![r] =
             Caught([req[r] EXCEPT !.secondaryCalls = 1], "setup", e)]
    /\ UNCHANGED <<genai_client, cache, active, messages, gemini_contents>>

\* variant: without the `if not line: continue`
OpenRouterOnLine_NoSkip(r, line) ==
    Yield([r EXCEPT !.up = Append(r.up, line)], Wire(line), "iterating")

\* lines 194-198: one line of the response
OpenRouterOnLine(r, line) ==
    IF line = EmptyLine
    THEN [r EXCEPT !.up = Append(r.up, line)]
    ELSE Yield([r EXCEPT !.up = Append(r.up, line)], Wire(line), "iterating")

OpenRouterLine(r) ==
    /\ InGenerator(r, "secondary", "iterating")
    /\ Len(req[r].up) < MaxEvents
    /\ \E line \in OpenRouterLines :
         req' = [req EXCEPT ![r] = OpenRouterOnLine(req[r], line)]
    /\ UNCHANGED <<genai_client, cache, active, messages, gemini_contents>>

\* lines 199-200: the response is exhausted
OpenRouterEnd(r) ==
    /\ InGenerator(r, "secondary", "iterating")
    /\ req' = [req EXCEPT ![r] = Yield(req[r], Sentinel, "done")]
    /\ UNCHANGED <<genai_client, cache, active, messages, gemini_contents>>

\* lines 194, 201: aiter_lines raises
OpenRouterRaises(r) ==
    /\ InGenerator(r, "secondary", "iterating")
    /\ \E e \in ExcMsgs :
         req' = [req EXCEPT ![r] = Caught(req[r], "iter", e)]
    /\ UNCHANGED <<genai_client, cache, active, messages, gemini_contents>>

\* variant: the except clause yields no error event
OpenRouterYieldError_NoEvent(r) ==
    /\ InGenerator(r, "secondary", "except")
    /\ req' = [req EXCEPT ![r] = [req[r] EXCEPT !.pc = "except_done"]]
    /\ UNCHANGED <<genai_client, cache, active, messages, gemini_contents>>

\* lines 203-204
OpenRouterYieldError(r) ==
    /\ InGenerator(r, "secondary", "except")
    /\ req' = [req EXCEPT ![r] =
           Yield(req[r], ErrorEvent(OpenRouterErrorMsg(req[r].exc[1])), "except_done")]
    /\ UNCHANGED <<genai_client, cache, active, messages, gemini_contents>>

\* line 205
OpenRouterYieldDone(r) ==
    /\ InGenerator(r, "secondary", "except_done")
    /\ req' = [req EXCEPT ![r] = Yield(req[r], Sentinel, "done")]
    /\ UNCHANGED <<genai_client, cache, active, messages, gemini_contents>>

----------------------------------------------------------------------------
(* Environment *)

\* the cache file is deleted by hand (it is never deleted by the program)
DeleteCache ==
    /\ CacheExists(cache)
    /\ cache' = CacheMissing
    /\ UNCHANGED <<genai_client, active, req, messages, gemini_contents>>

\* the response has been delivered; the slot serves the next request
Finish(r) ==
    /\ req[r].pc = "done"
    /\ req' = [req EXCEPT ![r] = IdleReq]
    /\ UNCHANGED <<genai_client, cache, active, messages, gemini_contents>>

----------------------------------------------------------------------------

NotTranslated == [done |-> FALSE, ok |-> TRUE, value |-> <<>>]

InitialCatalogs == { Catalog(MapModels(l)) : l \in SeqsUpTo(ProviderModels, 1) }

InitialCaches ==
    {CacheMissing, CacheUnreadable, CacheCorrupt}
      \cup { CacheJson(v) : v \in InitialCatalogs }
      \cup { CacheJson(EmptyObject), CacheJson(ScalarData), CacheJson(JsonArray) }

Init ==
    /\ genai_client \in BOOLEAN
    /\ cache \in InitialCaches
    /\ active = {1}
    /\ req = [r \in Reqs |-> IdleReq]
    /\ messages = <<>>
    /\ gemini_contents = NotTranslated

Next ==
    \/ \E r \in Reqs : ListModelsCached(r)
    \/ \E r \in Reqs : ListModelsGemini(r)
    \/ \E r \in Reqs : ListModelsGeminiFails(r)
    \/ \E r \in Reqs : ListModelsOpenRouter(r)
    \/ \E r \in Reqs : OpenRouterModelsReply(r)
    \/ \E r \in Reqs : OpenRouterModelsFails(r)
    \/ \E r \in Reqs : ChatInvalidJson(r)
    \/ \E r \in Reqs : ChatGeminiBadBody(r)
    \/ \E r \in Reqs : ChatGeminiMissing(r)
    \/ \E r \in Reqs : ChatGeminiConvertFails(r)
    \/ \E r \in Reqs : ChatGeminiStream(r)
    \/ \E r \in Reqs : GeminiCall(r)
    \/ \E r \in Reqs : GeminiCallFails(r)
    \/ \E r \in Reqs : GeminiEvent(r)
    \/ \E r \in Reqs : GeminiEnd(r)
    \/ \E r \in Reqs : GeminiRaises(r)
    \/ \E r \in Reqs : GeminiYieldError(r)
    \/ \E r \in Reqs : GeminiYieldDone(r)
    \/ \E r \in Reqs : ChatOpenRouterBadBody(r)
    \/ \E r \in Reqs : ChatOpenRouterStream(r)
    \/ \E r \in Reqs : OpenRouterConnect(r)
    \/ \E r \in Reqs : OpenRouterConnectFails(r)
    \/ \E r \in Reqs : OpenRouterLine(r)
    \/ \E r \in Reqs : OpenRouterEnd(r)
    \/ \E r \in Reqs : OpenRouterRaises(r)
    \/ \E r \in Reqs : OpenRouterYieldError(r)
    \/ \E r \in Reqs : OpenRouterYieldDone(r)
    \/ \E r \in Reqs : Finish(r)
    \/ DeleteCache

Spec == Init /\ [][Next]_vars

\* The server keeps running a started generator until it returns (the client
\* keeps reading), and the upstream stream ends or raises at some point.
Fairness ==
    \A r \in Reqs :
        /\ WF_vars(GeminiCall(r) \/ GeminiCallFails(r))
        /\ WF_vars(GeminiEnd(r) \/ GeminiRaises(r))
        /\ WF_vars(GeminiYieldError(r))
        /\ WF_vars(GeminiYieldDone(r))
        /\ WF_vars(OpenRouterConnect(r) \/ OpenRouterConnectFails(r))
        /\ WF_vars(OpenRouterEnd(r) \/ OpenRouterRaises(r))
        /\ WF_vars(OpenRouterYieldError(r))
        /\ WF_vars(OpenRouterYieldDone(r))

SpecFair == Spec /\ Fairness

----------------------------------------------------------------------------
(* Concurrent GET /v1/models requests on one event loop: list_models step by *)
(* step, lines 29-105                                                        *)

\* open(CACHE_FILE, "w") has truncated the file and json.dump has not finished
CacheWriting == [kind |-> "writing", value |-> NoJson]

\* positions of list_models between its entry and its first await or return
RunningPcs == {"check", "fetch", "open", "dump", "respond"}

\* variant: the handlers run on threads, so any request may step at any time
LoopFree_Preemptive(r) == TRUE

\* The event loop runs one coroutine at a time and switches only at an await;
\* lines 32-91 contain none (models.list(), open and json.dump are blocking
\* calls), so r may step only while no other request is inside those lines.
LoopFree(r) == \A other \in Reqs \ {r} : req[other].pc \notin RunningPcs

\* lines 29-32: the handler is entered
LoopStart(r) ==
    /\ CanStart(r)
    /\ LoopFree(r)
    /\ req' = [req EXCEPT ![r] = [IdleReq EXCEPT !.kind = "models", !.pc = "check"]]
    /\ UNCHANGED <<genai_client, cache, active, messages, gemini_contents>>

\* lines 35-45, 93-98: the cache check and the choice of the provider
LoopCheckCache(r) ==
    /\ req[r].kind = "models" /\ req[r].pc = "check"
    /\ LoopFree(r)
    /\ req' = [req EXCEPT ![r] =
           IF CacheHit(cache)
           THEN JSONResponse([req[r] EXCEPT !.path = "cache", !.cacheSeen = cache],
                             cache.value, 200)
           ELSE IF genai_client
           THEN [req[r] EXCEPT !.path = "primary", !.cacheSeen = cache, !.pc = "fetch"]
           ELSE [req[r] EXCEPT !.path = "secondary", !.cacheSeen = cache,
                               !.pc = "await_models", !.secondaryCalls = 1]]
    /\ UNCHANGED <<genai_client, cache, active, messages, gemini_contents>>

\* lines 48-76: models.list() and the mapping loop succeed
LoopFetch(r) ==
    /\ req[r].kind = "models" /\ req[r].pc = "fetch"
    /\ LoopFree(r)
    /\ \E models \in ModelListings :
         req' = [req EXCEPT ![r] =
             [req[r] EXCEPT !.listed = models, !.primaryCalls = 1,
                            !.content = Catalog(MapModels(models)), !.pc = "open"]]
    /\ UNCHANGED <<genai_client, cache, active, messages, gemini_contents>>

\* lines 48, 89-91: models.list() raises
LoopFetchFails(r) ==
    /\ req[r].kind = "models" /\ req[r].pc = "fetch"
    /\ LoopFree(r)
    /\ \E e \in ExcMsgs :
         req' = [req EXCEPT ![r] =
             JSONResponse([req[r] EXCEPT !.primaryCalls = 1, !.raisedAt = "call",
                                         !.exc = <<e>>],
                          ErrorJson(<<e>>), 500)]
    /\ UNCHANGED <<genai_client, cache, active, messages, gemini_contents>>

\* line 80: open(CACHE_FILE, "w") truncates the file, or raises
LoopOpen(r) ==
    /\ req[r].kind = "models" /\ req[r].pc = "open"
    /\ LoopFree(r)
    /\ \E opened \in BOOLEAN :
         IF opened
         THEN /\ cache' = CacheWriting
              /\ req' = [req EXCEPT ![r] = [req[r] EXCEPT !.pc = "dump"]]
         ELSE /\ cache' = WriteCache(cache, req[r].content, "open_failed")
              /\ req' = [req EXCEPT ![r] =
                     [req[r] EXCEPT !.writeOutcome = "open_failed", !.pc = "respond"]]
    /\ UNCHANGED <<genai_client, active, messages, gemini_contents>>

\* lines 81-84: json.dump completes, or raises half-way
LoopDump(r) ==
    /\ req[r].kind = "models" /\ req[r].pc = "dump"
    /\ LoopFree(r)
    /\ \E outcome \in {"ok", "dump_failed"} :
         /\ cache' = WriteCache(cache, req[r].content, outcome)
         /\ req' = [req EXCEPT ![r] =
                [req[r] EXCEPT !.writeOutcome = outcome, !.pc = "respond"]]
    /\ UNCHANGED <<genai_client, active, messages, gemini_contents>>

\* lines 86-87
LoopRespond(r) ==
    /\ req[r].kind = "models" /\ req[r].pc = "respond"
    /\ LoopFree(r)
    /\ req' = [req EXCEPT ![r] = JSONResponse(req[r], req[r].content, 200)]
    /\ UNCHANGED <<genai_client, cache, active, messages, gemini_contents>>

\* lines 98-105: the coroutine is resumed with OpenRouter's answer
LoopReply(r) == LoopFree(r) /\ OpenRouterModelsReply(r)

\* lines 98, 103-105: the coroutine is resumed with the exception
LoopReplyFails(r) == LoopFree(r) /\ OpenRouterModelsFails(r)

\* the server sends the response, on the same loop
LoopFinish(r) == LoopFree(r) /\ Finish(r)

InitLoop ==
    /\ genai_client \in BOOLEAN
    /\ cache \in {CacheMissing, CacheCorrupt}
    /\ active = Reqs
    /\ req = [r \in Reqs |-> IdleReq]
    /\ messages = <<>>
    /\ gemini_contents = NotTranslated

NextLoop ==
    \/ \E r \in Reqs : LoopStart(r)
    \/ \E r \in Reqs : LoopCheckCache(r)
    \/ \E r \in Reqs : LoopFetch(r)
    \/ \E r \in Reqs : LoopFetchFails(r)
    \/ \E r \in Reqs : LoopOpen(r)
    \/ \E r \in Reqs : LoopDump(r)
    \/ \E r \in Reqs : LoopRespond(r)
    \/ \E r \in Reqs : LoopReply(r)
    \/ \E r \in Reqs : LoopReplyFails(r)
    \/ \E r \in Reqs : LoopFinish(r)

SpecLoop == InitLoop /\ [][NextLoop]_vars

----------------------------------------------------------------------------
(* The message translator on its own *)

Roles == {"user", "assistant", "system", "tool"}
Texts == {"", "hi"}

ChatMessages ==
    { Msg(role, text) : role \in Roles, text \in Texts }
      \cup { MsgNoContent("user"), MsgNoRole("hi") }

InitTranslate ==
    /\ genai_client = FALSE
    /\ cache = CacheMissing
    /\ active = {}
    /\ req = [r \in Reqs |-> IdleReq]
    /\ messages \in SeqsUpTo(ChatMessages, MaxMsgs)
    /\ gemini_contents = NotTranslated

\* lines 108-120 applied to the input
Translate ==
    /\ ~gemini_contents.done
    /\ gemini_contents' =
           [done |-> TRUE,
            ok |-> convert_openai_messages_to_gemini_contents(messages).ok,
            value |-> convert_openai_messages_to_gemini_contents(messages).value]
    /\ UNCHANGED <<genai_client, cache, active, req, messages>>

NextTranslate == Translate

SpecTranslate == InitTranslate /\ [][NextTranslate]_vars

----------------------------------------------------------------------------
(* Properties *)

IsChat(r) == req[r].kind = "chat"
IsModels(r) == req[r].kind = "models"
IsDone(r) == req[r].pc = "done"

\* how often event e occurs in the sequence s
Count(s, e) == Cardinality({ i \in 1..Len(s) : s[i] = e })

\* the events emitted since the generator caught the exception
SinceRaise(r) == SubSeq(req[r].out, req[r].outAtRaise + 1, Len(req[r].out))

IsErrorEvent(ev) == ev.line.prefix = "data: " /\ ev.line.kind = "json_error"

\* C1: every finished event stream, on either path and failed or not, contains
\* the terminal sentinel "data: [DONE]" exactly once, as its last event.
C1_SentinelOnceAndLast ==
    \A r \in Reqs :
        (IsChat(r) /\ req[r].resp = "stream" /\ IsDone(r)) =>
            /\ Count(req[r].out, Sentinel) = 1
            /\ req[r].out[Len(req[r].out)] = Sentinel

\* C2: once the upstream has raised inside a started stream (at the call or
\* after any number of relayed events), the generator emits one error event
\* carrying the exception's message, then one sentinel, then nothing; the
\* response stays the 200 event stream (the exception is caught, not raised
\* out of the generator).
C2_ErrorThenSentinel ==
    \A r \in Reqs :
        (IsChat(r) /\ req[r].raisedAt \in {"setup", "iter"}) =>
            /\ req[r].resp = "stream"
            /\ req[r].status = 200
            /\ req[r].pc \in {"except", "except_done", "done"}
            /\ req[r].pc = "except" => SinceRaise(r) = <<>>
            /\ req[r].pc = "except_done" =>
                   /\ Len(SinceRaise(r)) = 1
                   /\ IsErrorEvent(SinceRaise(r)[1])
            /\ req[r].pc = "done" =>
                   /\ Len(SinceRaise(r)) = 2
                   /\ IsErrorEvent(SinceRaise(r)[1])
                   /\ req[r].exc[1] = SinceRaise(r)[1].line.text[Len(SinceRaise(r)[1].line.text)]
                   /\ SinceRaise(r)[2] = Sentinel

\* C2 witness: a stream that relayed an event, then failed, and is finished
C2_Witness ==
    \E r \in Reqs :
        /\ IsChat(r) /\ IsDone(r)
        /\ req[r].raisedAt = "iter"
        /\ req[r].outAtRaise >= 1

\* C3: a cache file that exists and holds any valid JSON value is returned
\* as it is with status 200, and no provider is called.
C3_CacheAlwaysWins ==
    \A r \in Reqs :
        (IsModels(r) /\ req[r].cacheSeen.kind = "json") =>
            /\ req[r].primaryCalls = 0
            /\ req[r].secondaryCalls = 0
            /\ IsDone(r)
            /\ req[r].status = 200
            /\ req[r].content = req[r].cacheSeen.value

\* C4: with the primary configured, a failure of the streaming generation call
\* before any event was streamed is answered with a JSON error and status 500.
C4_SetupFailureIs500 ==
    \A r \in Reqs :
        (IsChat(r) /\ req[r].path = "primary" /\ req[r].raisedAt = "setup") =>
            /\ req[r].resp = "json"
            /\ req[r].status = 500

\* C5: a body that does not parse as JSON is answered with 400 and
\* {"error": "Invalid JSON body"}; no stream starts and no provider is called,
\* with or without a primary provider.
C5_InvalidJsonIs400 ==
    \A r \in Reqs :
        (IsChat(r) /\ req[r].body.parse = "invalid") =>
            /\ IsDone(r)
            /\ req[r].resp = "json"
            /\ req[r].status = 400
            /\ req[r].content = ErrorJson(<<"Invalid JSON body">>)
            /\ req[r].out = <<>>
            /\ req[r].primaryCalls = 0
            /\ req[r].secondaryCalls = 0

\* C5 witness: an unparsable body was answered while the primary is configured
C5_Witness ==
    \E r \in Reqs :
        IsChat(r) /\ req[r].body.parse = "invalid" /\ IsDone(r) /\ genai_client

\* the positions of the messages with non-empty content
Kept(msgs) == { i \in 1..Len(msgs) : msgs[i].hasContent /\ msgs[i].content # "" }

ExpectedRole(msg) ==
    CASE msg.hasRole /\ msg.role = "user" -> "user"
      [] msg.hasRole /\ msg.role = "assistant" -> "model"
      [] OTHER -> "system"

\* C6: the translator returns exactly the messages with non-empty content, in
\* their order and unmerged, each as {role, parts: [{text: content}]} with
\* user -> user, assistant -> model, anything else -> system.
C6_TranslatorKeepsNonEmptyInOrder ==
    gemini_contents.done =>
        /\ gemini_contents.ok
        /\ Len(gemini_contents.value) = Cardinality(Kept(messages))
        /\ \A i \in Kept(messages) :
             gemini_contents.value[Cardinality({ j \in Kept(messages) : j <= i })] =
                 [role |-> ExpectedRole(messages[i]),
                  parts |-> <<[text |-> messages[i].content]>>]

\* C6 witness: a translated input that had an empty message before an
\* assistant message
C6_Witness ==
    /\ gemini_contents.done
    /\ Len(messages) = 3
    /\ messages[2].content = ""
    /\ messages[3] = Msg("assistant", "hi")
    /\ Len(gemini_contents.value) = 2

\* C7: when the model listing reaches the primary provider and the provider
\* call raises, the answer is {error: message} with status 500, the secondary
\* provider is not called and the cache file is left as it was.
C7_PrimaryListFailure ==
    [][ \A r \in Reqs :
          ( /\ req[r].kind = "idle"
            /\ req'[r].kind = "models"
            /\ req'[r].primaryCalls = 1
            /\ req'[r].raisedAt = "call" ) =>
              /\ req'[r].pc = "done"
              /\ req'[r].resp = "json"
              /\ req'[r].status = 500
              /\ req'[r].content = ErrorJson(req'[r].exc)
              /\ req'[r].secondaryCalls = 0
              /\ cache' = cache ]_vars

\* C7 witness: the primary listing failed over a corrupt cache file, which is
\* still there
C7_Witness ==
    \E r \in Reqs :
        /\ IsModels(r) /\ IsDone(r)
        /\ req[r].primaryCalls = 1
        /\ req[r].raisedAt = "call"
        /\ req[r].cacheSeen = CacheCorrupt
        /\ cache = CacheCorrupt

\* a model listing that was answered by the secondary provider over a missing
\* cache file
SecondaryAnswered(r) ==
    /\ IsModels(r) /\ IsDone(r)
    /\ req[r].path = "secondary"
    /\ req[r].cacheSeen.kind = "missing"
    /\ req[r].upstreamStatus # 0

\* C8 as stated: with the cache missing and no primary, the status of the
\* answer equals the status the secondary returned, whatever that answer was.
C8_StatusAlwaysUpstream ==
    \A r \in Reqs : SecondaryAnswered(r) => req[r].status = req[r].upstreamStatus

\* the body is a JSON object whose "data" is absent or has a length
ObjectWithListableData(b) ==
    b.parses /\ b.value.shape \in {"catalog", "object", "error"}

\* C8 amended: the status equals the secondary's status when the secondary's
\* body is a JSON object whose "data" is absent or has a length, and is 500
\* for any other body.
C8_StatusUpstreamOrParseError ==
    \A r \in Reqs :
        SecondaryAnswered(r) =>
            req[r].status = (IF ObjectWithListableData(req[r].upstreamBody)
                             THEN req[r].upstreamStatus ELSE 500)

\* C8 witness: the secondary answered 401 with a JSON error object
C8_Witness ==
    \E r \in Reqs :
        /\ SecondaryAnswered(r)
        /\ req[r].upstreamStatus = 401
        /\ req[r].upstreamBody.value.shape = "error"

\* C9: with the primary configured, a parsed body with neither "messages" nor
\* "contents" is answered with 400 and the "Missing" error, without a stream or
\* a provider call; and "contents" is used only when "messages" is absent.
C9_MissingFieldsIs400 ==
    \A r \in Reqs :
        (IsChat(r) /\ req[r].path = "primary") =>
            /\ (~req[r].body.messages.present /\ ~req[r].body.contents.present) =>
                   /\ IsDone(r)
                   /\ req[r].resp = "json"
                   /\ req[r].status = 400
                   /\ req[r].content = ErrorJson(<<"Missing 'messages' or 'contents'">>)
                   /\ req[r].out = <<>>
                   /\ req[r].primaryCalls = 0
                   /\ req[r].secondaryCalls = 0
            /\ req[r].usedField = "contents" => ~req[r].body.messages.present

WithoutModelsSegments(name) == SelectSeq(name, LAMBDA seg : seg # "models/")

\* C10: over a missing or unparsable cache, a successful primary listing is
\* answered with 200 and a catalog with one descriptor per reported model, in
\* the provider's order; a model without input-token-limit gets
\* context_length 4096.
C10_CatalogFromPrimary ==
    \A r \in Reqs :
        ( /\ IsModels(r) /\ IsDone(r)
          /\ req[r].cacheSeen.kind \in {"missing", "corrupt", "unreadable"}
          /\ req[r].primaryCalls = 1
          /\ req[r].raisedAt = "none" ) =>
            /\ req[r].resp = "json"
            /\ req[r].status = 200
            /\ req[r].content.shape = "catalog"
            /\ Len(req[r].content.data) = Len(req[r].listed)
            /\ \A i \in 1..Len(req[r].listed) :
                 /\ req[r].content.data[i].id = WithoutModelsSegments(req[r].listed[i].name)
                 /\ req[r].listed[i].hasLimit =>
                        req[r].content.data[i].context_length =
                            req[r].listed[i].input_token_limit
                 /\ ~req[r].listed[i].hasLimit =>
                        req[r].content.data[i].context_length = 4096

\* C10 witness: two models listed over a corrupt cache, the second without an
\* input-token-limit
C10_Witness ==
    \E r \in Reqs :
        /\ IsModels(r) /\ IsDone(r)
        /\ req[r].cacheSeen = CacheCorrupt
        /\ req[r].primaryCalls = 1
        /\ req[r].raisedAt = "none"
        /\ Len(req[r].listed) = 2
        /\ req[r].listed[1].hasLimit
        /\ ~req[r].listed[2].hasLimit

\* the value is a non-empty list of {"role": ..., "parts": [{"text": ...}]} objects
IsNative(v) ==
    /\ v.type = "list"
    /\ v.items # <<>>
    /\ \A i \in 1..Len(v.items) :
         v.items[i].isDict /\ ~v.items[i].hasContent /\ v.items[i].parts # <<>>

\* the value of the body field the handler took its contents from
UsedValue(r) ==
    IF req[r].usedField = "messages" THEN req[r].body.messages ELSE req[r].body.contents

\* C11: on the primary path a content value already in the provider's shape is
\* handed to the provider unchanged; only role/content messages are translated.
C11_NativePassedUnchanged ==
    \A r \in Reqs :
        (IsChat(r) /\ req[r].path = "primary" /\ req[r].resp = "stream"
            /\ IsNative(UsedValue(r))) =>
            req[r].sent = UsedValue(r)

\* the step starts a GET /v1/models in slot r (and runs it to its first await)
StartsModels(r) == req[r].kind = "idle" /\ req'[r].kind = "models"

\* C12: a successful primary fetch leaves its catalog in the cache file, and
\* from then on, until the file is deleted by hand, the file keeps that catalog
\* and every GET /v1/models returns it with status 200 without an upstream
\* call, whatever the provider would answer now.
C12_CachedCatalogIsServed ==
    [][ /\ \A r \in Reqs :
             (StartsModels(r) /\ req'[r].writeOutcome = "ok") =>
                 /\ cache' = CacheJson(req'[r].content)
                 /\ CacheHit(cache')
        /\ CacheHit(cache) => cache' \in {cache, CacheMissing}
        /\ \A r \in Reqs :
             (StartsModels(r) /\ CacheHit(cache)) =>
                 /\ req'[r].pc = "done"
                 /\ req'[r].resp = "json"
                 /\ req'[r].status = 200
                 /\ req'[r].content = cache.value
                 /\ req'[r].primaryCalls = 0
                 /\ req'[r].secondaryCalls = 0
                 /\ cache' = cache ]_vars

\* C12 witness: a request served from a cache holding two descriptors, which
\* only a primary fetch can have written
C12_Witness ==
    \E r \in Reqs :
        /\ IsModels(r) /\ IsDone(r)
        /\ req[r].path = "cache"
        /\ req[r].status = 200
        /\ Len(req[r].content.data) = 2

\* C13: a cache failure never reaches the caller: over an unreadable or
\* unparsable cache file the request goes on to the primary provider if one is
\* configured and to the secondary otherwise, and only an upstream failure can
\* make it answer 500; a failed cache write after a successful primary fetch
\* still answers 200 with the fetched catalog.
C13_CacheFailuresNotSurfaced ==
    \A r \in Reqs :
        IsModels(r) =>
            /\ req[r].cacheSeen.kind \in {"unreadable", "corrupt"} =>
                   /\ req[r].path = (IF genai_client THEN "primary" ELSE "secondary")
                   /\ req[r].primaryCalls = (IF genai_client THEN 1 ELSE 0)
                   /\ req[r].secondaryCalls = (IF genai_client THEN 0 ELSE 1)
                   /\ (IsDone(r) /\ req[r].status = 500) =>
                          req[r].raisedAt \in {"call", "parse"}
            /\ req[r].writeOutcome \in {"open_failed", "dump_failed"} =>
                   /\ IsDone(r)
                   /\ req[r].resp = "json"
                   /\ req[r].status = 200
                   /\ req[r].content.shape = "catalog"
                   /\ Len(req[r].content.data) = Len(req[r].listed)

\* C13 witness: over an unreadable cache file the primary listed a model and
\* the write of the cache failed half-way
C13_Witness ==
    \E r \in Reqs :
        /\ IsModels(r) /\ IsDone(r)
        /\ req[r].cacheSeen = CacheUnreadable
        /\ req[r].writeOutcome = "dump_failed"
        /\ Len(req[r].listed) = 1
        /\ req[r].status = 200

\* C14: whether the primary is configured never changes; with it no request
\* calls the secondary provider, without it no request calls the primary, and
\* no request makes more than one upstream call, also after a failure.
C14_ProviderSelectionFixed ==
    [][ /\ genai_client' = genai_client
        /\ \A r \in Reqs :
             /\ genai_client => req'[r].secondaryCalls = 0
             /\ ~genai_client => req'[r].primaryCalls = 0
             /\ req'[r].primaryCalls + req'[r].secondaryCalls <= 1 ]_vars

\* C14 witness: with the primary configured, a chat stream failed mid-way and
\* finished after its single upstream call
C14_Witness ==
    \E r \in Reqs :
        /\ genai_client
        /\ IsChat(r) /\ IsDone(r)
        /\ req[r].raisedAt = "iter"
        /\ req[r].primaryCalls = 1
        /\ req[r].secondaryCalls = 0

\* the provider event carries a text fragment
CarriesText(event) == event.hasText /\ event.text # PyNone

\* the events of s that carry text, in order
TextEvents(s) == SelectSeq(s, CarriesText)

\* C15: a primary stream that ended without a failure is exactly one chunk per
\* text-carrying provider event, in the provider's order and with that event's
\* text, followed by the sentinel; events without text emit nothing.
C15_OneChunkPerTextEvent ==
    \A r \in Reqs :
        (IsChat(r) /\ req[r].path = "primary" /\ req[r].resp = "stream"
            /\ IsDone(r) /\ req[r].raisedAt = "none") =>
            /\ Len(req[r].out) = Len(TextEvents(req[r].up)) + 1
            /\ \A i \in 1..Len(TextEvents(req[r].up)) :
                 req[r].out[i] = ChunkEvent(TextEvents(req[r].up)[i].text)
            /\ req[r].out[Len(req[r].out)] = Sentinel

\* the line has at least one character
NonEmptyLine(line) == line.prefix # "" \/ line.text # <<>>

\* what a verbatim relay of the non-empty lines of s looks like on the wire
Relayed(s) ==
    [ i \in 1..Len(SelectSeq(s, NonEmptyLine)) |->
        [line |-> SelectSeq(s, NonEmptyLine)[i], term |-> "\n\n"] ]

\* C16: on the secondary path the body sent upstream is the caller's body with
\* `stream` set to true and nothing else changed, and what is emitted before
\* the sentinel (or before the error event) is every non-empty upstream line,
\* verbatim, once and in upstream order, the empty lines dropped.
C16_SecondaryRelaysVerbatim ==
    \A r \in Reqs :
        (IsChat(r) /\ req[r].path = "secondary" /\ req[r].resp = "stream") =>
            /\ req[r].sentBody.stream = "true"
            /\ req[r].sentBody.parse = req[r].body.parse
            /\ req[r].sentBody.model = req[r].body.model
            /\ req[r].sentBody.messages = req[r].body.messages
            /\ req[r].sentBody.contents = req[r].body.contents
            /\ req[r].pc \in {"gen_start", "iterating"} =>
                   req[r].out = Relayed(req[r].up)
            /\ (req[r].pc = "done" /\ req[r].raisedAt = "none") =>
                   req[r].out = Relayed(req[r].up) \o <<Sentinel>>
            /\ req[r].raisedAt # "none" =>
                   SubSeq(req[r].out, 1, req[r].outAtRaise) = Relayed(req[r].up)

\* C16 witness: a finished relay of an empty line followed by a data line
C16_Witness ==
    \E r \in Reqs :
        /\ IsChat(r) /\ IsDone(r)
        /\ req[r].path = "secondary"
        /\ req[r].raisedAt = "none"
        /\ Len(req[r].up) = 2
        /\ req[r].up[1] = EmptyLine
        /\ req[r].up[2] = Line("data: ", "json_chunk", <<"a">>)
        /\ Len(req[r].out) = 2

\* the order of a streaming request's positions
StreamOrder ==
    { <<"gen_start", "iterating">>, <<"gen_start", "except">>,
      <<"iterating", "iterating">>, <<"iterating", "done">>,
      <<"iterating", "except">>, <<"except", "except_done">>,
      <<"except_done", "done">> }

Streaming(r) == IsChat(r) /\ req[r].resp = "stream"

\* C17: once a chat request streams, it stays a 200 event stream on the same
\* path, moving only forward through its positions, and (the upstream ending
\* or raising at some point) it reaches DONE with the sentinel as the last
\* event emitted.
C17_StreamRunsToDone ==
    /\ [][ \A r \in Reqs :
             (Streaming(r) /\ ~IsDone(r)) =>
                 /\ req'[r].kind = "chat"
                 /\ req'[r].resp = "stream"
                 /\ req'[r].status = 200
                 /\ req'[r].path = req[r].path
                 /\ req'[r].path \in {"primary", "secondary"}
                 /\ req'[r] # req[r] => <<req[r].pc, req'[r].pc>> \in StreamOrder ]_vars
    /\ \A r \in Reqs :
         Streaming(r) ~>
             ( /\ Streaming(r) /\ IsDone(r)
               /\ req[r].out # <<>>
               /\ req[r].out[Len(req[r].out)] = Sentinel )

\* C17 witness: a stream whose provider call failed at once has reached DONE
C17_Witness ==
    \E r \in Reqs :
        /\ Streaming(r) /\ IsDone(r)
        /\ req[r].raisedAt = "setup"
        /\ req[r].up = <<>>
        /\ Len(req[r].out) = 2

\* the step is a GET /v1/models that fetched successfully from the primary
FetchedFromPrimary(r) ==
    /\ StartsModels(r)
    /\ req'[r].path = "primary"
    /\ req'[r].primaryCalls = 1
    /\ req'[r].raisedAt = "none"
    /\ req'[r].status = 200

\* the step belongs to no request: the file is removed by hand
DeletedByHand == req' = req /\ cache' = CacheMissing

\* C18: the program changes the cache file only in a GET /v1/models that
\* fetched successfully from the primary; requests served from the cache or by
\* the secondary, requests ending in an error and chat requests leave it as it
\* is, so without a primary a missing or corrupt cache stays missing or corrupt.
C18_OnlyPrimaryFetchWritesCache ==
    [][ /\ cache' # cache => (DeletedByHand \/ \E r \in Reqs : FetchedFromPrimary(r))
        /\ ~genai_client => (cache' = cache \/ DeletedByHand) ]_vars

\* C18 witness: the secondary answered a model listing and the corrupt cache
\* file is still corrupt
C18_Witness ==
    \E r \in Reqs :
        /\ IsModels(r) /\ IsDone(r)
        /\ req[r].path = "secondary"
        /\ req[r].status = 200
        /\ req[r].cacheSeen = CacheCorrupt
        /\ cache = CacheCorrupt

\* C20: without a primary provider every chat request whose body parses is
\* answered with an event stream (status 200), never with an error response;
\* upstream failures show up only inside the stream.
C20_SecondaryAlwaysStreams ==
    \A r \in Reqs :
        (IsChat(r) /\ ~genai_client /\ req[r].body.parse \in {"object", "array"}) =>
            /\ req[r].resp = "stream"
            /\ req[r].status = 200

\* C19: on one event loop a GET /v1/models runs from its cache check to its
\* answer without another request stepping in between; so no request ever
\* reads the cache file while it is being written, a completed write leaves a
\* loadable cache that no later request overwrites, and every request that
\* checks the cache after that is served from it.
C19_CacheStepsAtomic ==
    [][ /\ \A r \in Reqs :
             req[r].pc \in RunningPcs =>
                 \A other \in Reqs \ {r} : req'[other] = req[other]
        /\ \A r \in Reqs : req'[r].cacheSeen.kind # "writing"
        /\ \A r \in Reqs :
             (req[r].pc = "dump" /\ req'[r].writeOutcome = "ok") =>
                 /\ cache' = CacheJson(req[r].content)
                 /\ CacheHit(cache')
        /\ CacheHit(cache) => cache' = cache
        /\ \A r \in Reqs :
             (req[r].pc = "check" /\ req'[r].pc # "check" /\ CacheHit(cache)) =>
                 /\ req'[r].pc = "done"
                 /\ req'[r].status = 200
                 /\ req'[r].content = cache.value
                 /\ req'[r].primaryCalls = 0
                 /\ req'[r].secondaryCalls = 0 ]_vars

\* C19 witness: one request fetched two models and wrote the cache, another
\* one was answered from that cache, and both answers are still held
C19_Witness ==
    \E r \in Reqs, other \in Reqs :
        /\ r # other
        /\ IsModels(r) /\ IsDone(r) /\ req[r].writeOutcome = "ok"
        /\ Len(req[r].listed) = 2
        /\ IsModels(other) /\ IsDone(other) /\ req[other].path = "cache"
        /\ req[other].content = req[r].content

====
